---- MODULE Spec2Model ----
(***************************************************************************)
(* The css language server of src/css/server.ts: the document store, the   *)
(* debounced validation scheduler (pendingValidationRequests and the host's *)
(* timers), the promise job queue that validateTextDocument goes through,   *)
(* the stylesheet model cache and the diagnostic sink.                      *)
(*                                                                         *)
(* The host is a single-threaded event loop.  A protocol event, a timer     *)
(* callback and a promise reaction each run to completion, so each is one   *)
(* action.  Promise reactions (the queue `microtasks`) are drained before   *)
(* the loop takes the next protocol event; whether another due timer may    *)
(* run before the queue is drained depends on the host's version, so both   *)
(* orders are allowed.                                                      *)
(***************************************************************************)
EXTENDS Integers, Sequences, FiniteSets, TLC

\* ---- bounds of the model ------------------------------------------------
NumDocs == 2          \* document identities of the server specification
MaxVersion == 2       \* document versions run over 1..MaxVersion
NumContents == 2      \* distinct document texts
NumSettings == 1      \* distinct settings objects a configuration change carries
MaxTicks == 3         \* the clock stops after MaxTicks steps
LruTicks == 1         \* the same, where the cache is asked beyond its capacity

\* ---- constants of the program -------------------------------------------
validationDelayMs == 200
Capacity == 10
maxAgeSeconds == 60

\* The clock advances in steps of half the validation delay.
TickMs == validationDelayMs \div 2
MaxTime == MaxTicks * TickMs

Uris == 1..NumDocs
Contents == 1..NumContents
Versions == 1..MaxVersion
SettingsValues == 1..NumSettings

\* Keys of languageServices.
RegisteredIds == {"css", "scss", "less"}
\* languageServices is an object literal: a lookup by a name that its
\* prototype defines finds the prototype's member, which is no engine.
InheritedKeys == {"constructor"}
\* The dialect a document is opened with goes with its uri (its file type):
\* one that is no key of languageServices, the keys, then one that the
\* prototype of languageServices defines.
Dialects == <<"plaintext", "less", "css", "scss", "constructor">>
LanguageOf(uri) == Dialects[((uri - 1) % Len(Dialects)) + 1]

VARIABLES
    documents,                  \* uris of the documents in the store (open)
    objects,                    \* uri -> the TextDocument object last created for it
    pendingValidationRequests,  \* uri -> handle of the timer recorded for it
    timers,                     \* the host's armed timers
    microtasks,                 \* queued promise reactions of validateTextDocument
    now,                        \* the clock, in ms
    languageModels,             \* the cache: uri -> entry
    cleanupInterval,            \* the cache's periodic sweep: {} or {time it is due}
    documentSettings,           \* keys of the per-document settings map
    published,                  \* the sink: uri -> diagnostics last published
    burst,                      \* history: uri -> the current burst of triggerValidation calls
    removed,                    \* history: uri -> the version of the entry that the last
                                \* onDocumentRemoved(uri) removed (0: it removed none),
                                \* until the cache is next asked for uri
    out                         \* what the last handler gave out: its calls of the cache
                                \* and of the engines, the messages sent, the result

vars == <<documents, objects, pendingValidationRequests, timers, microtasks, now,
          languageModels, cleanupInterval, documentSettings, published,
          burst, removed, out>>

\* ---- helpers on maps (JavaScript objects used as maps) -------------------
Put(m, k, v) == [x \in DOMAIN m \cup {k} |-> IF x = k THEN v ELSE m[x]]

Delete(m, k) == [x \in DOMAIN m \ {k} |-> m[x]]

EmptyMap == [x \in {} |-> 0]

Forget(m, k) == IF k \in DOMAIN m THEN Delete(m, k) ELSE m

\* ---- the dispatch router --------------------------------------------------
\* getLanguageService: the member of languageServices that is returned, by
\* its name: languageServices[languageId] when that is truthy, the css engine
\* when it is not.
getLanguageService(languageId) ==
    IF languageId \in RegisteredIds \cup InheritedKeys THEN languageId ELSE "css"

\* What one call of getLanguageService writes to the log.
ServiceLog(languageId) ==
    IF languageId \in RegisteredIds \cup InheritedKeys THEN <<>> ELSE <<"log">>

\* Whether what getLanguageService returned is an engine: a call of a method
\* of anything else throws a TypeError.
IsEngine(service) == service \in RegisteredIds

\* Where the handling of a document throws: where the engine does (`fail`),
\* or at the first call of a method of a service that is no engine; that
\* is parseStylesheet, in the compute function of the cache.
Throws(doc, fail) ==
    IF IsEngine(getLanguageService(doc.languageId)) THEN fail ELSE "parse"

\* ---- the analysis engine --------------------------------------------------
\* parseStylesheet: a function of the document's identity and text, by dialect.
Parse(uri, doc) ==
    [uri |-> uri, content |-> doc.content, engine |-> getLanguageService(doc.languageId)]

\* doValidation: the diagnostics of a document computed against a model.
DoValidation(uri, doc, stylesheet) ==
    <<[uri |-> uri, version |-> doc.version, content |-> doc.content,
       model |-> stylesheet]>>

\* The result of a query method of the engine.
DoQuery(kind, uri, doc, stylesheet) ==
    <<[kind |-> kind, uri |-> uri, content |-> doc.content, model |-> stylesheet]>>

NoDiagnostics == <<>>

\* ---- the model cache ------------------------------------------------------
IsHitNever(models, uri, doc) == FALSE

IsHit(models, uri, doc) ==
    uri \in DOMAIN models /\ models[uri].version = doc.version

Newest(models) ==
    {u \in DOMAIN models :
        \A w \in DOMAIN models : models[u].lastUsedAt >= models[w].lastUsedAt}

Oldest(models) ==
    {u \in DOMAIN models :
        \A w \in DOMAIN models : models[u].lastUsedAt <= models[w].lastUsedAt}

EvictNothing(models) == {models}

\* The capacity check: evict one oldest entry at a time until size <= capacity.
\* The set of the maps the check can leave (entries of equal age: any of them).
RECURSIVE EvictToCapacity(_)
EvictToCapacity(models) ==
    IF Cardinality(DOMAIN models) <= Capacity
    THEN {models}
    ELSE UNION {EvictToCapacity(Delete(models, u)) : u \in Oldest(models)}

\* get(document) at clock value t: the model returned, the number of calls of
\* the compute function, and the map with the entry stored, before the
\* capacity check.
Get(models, uri, doc, t) ==
    LET hit == IsHit(models, uri, doc)
        model == IF hit THEN models[uri].model ELSE Parse(uri, doc)
    IN [model |-> model,
        parses |-> IF hit THEN 0 ELSE 1,
        stored |-> Put(models, uri, [version |-> doc.version, model |-> model,
                                     lastUsedAt |-> t])]

\* onDocumentRemoved(document)
OnDocumentRemoved(models, uri) == Delete(models, uri)

\* ---- the validation scheduler ---------------------------------------------
ClearTimeoutKept(ts, uri, handle) == ts

\* clearTimeout(request): the host disarms the timer with that handle.
ClearTimeout(ts, uri, handle) == ts \ {[uri |-> uri, due |-> handle]}

\* cleanPendingValidation: its effect on the host's timers and on the map of
\* requests.
CleanPendingTimers(pending, ts, uri) ==
    IF uri \in DOMAIN pending THEN ClearTimeout(ts, uri, pending[uri]) ELSE ts

CleanAllRequests(pending, uri) == EmptyMap

CleanPendingRequests(pending, uri) ==
    IF uri \in DOMAIN pending THEN Delete(pending, uri) ELSE pending

TriggerTimersKeepingOld(pending, ts, uri, t) ==
    ts \cup {[uri |-> uri, due |-> t + validationDelayMs]}

\* triggerValidation(uri) at clock value t: cancel, then arm and record.
TriggerTimers(pending, ts, uri, t) ==
    CleanPendingTimers(pending, ts, uri) \cup {[uri |-> uri, due |-> t + validationDelayMs]}

TriggerRequests(pending, uri, t) ==
    Put(CleanPendingRequests(pending, uri), uri, t + validationDelayMs)

\* documents.all().forEach(triggerValidation), over the uris of `us`
RECURSIVE TriggerAllTimers(_, _, _, _)
TriggerAllTimers(pending, ts, us, t) ==
    IF us = {} THEN ts
    ELSE LET u == CHOOSE x \in us : TRUE
         IN TriggerAllTimers(TriggerRequests(pending, u, t),
                             TriggerTimers(pending, ts, u, t), us \ {u}, t)

TriggerNoRequests(pending, us, t) == pending

RECURSIVE TriggerAllRequests(_, _, _)
TriggerAllRequests(pending, us, t) ==
    IF us = {} THEN pending
    ELSE LET u == CHOOSE x \in us : TRUE
         IN TriggerAllRequests(TriggerRequests(pending, u, t), us \ {u}, t)

\* History of the calls of triggerValidation: a call that comes less than
\* validationDelayMs after the previous one for the uri continues its burst,
\* any other call starts a burst.  `until` is the time before which the next
\* call continues the burst, `many` says the burst has two calls or more,
\* `execs` counts the calls of validateTextDocument since the burst started.
BurstCall(b, uri, t) ==
    IF uri \in DOMAIN b /\ t < b[uri].until
    THEN Put(b, uri, [b[uri] EXCEPT !.until = t + validationDelayMs, !.many = TRUE])
    ELSE Put(b, uri, [until |-> t + validationDelayMs, many |-> FALSE, execs |-> 0])

\* A call of validateTextDocument; `until` is forgotten once it has passed.
BurstExec(b, uri, t) ==
    IF uri \in DOMAIN b
    THEN [b EXCEPT ![uri].execs = @ + 1, ![uri].until = IF t >= @ THEN 0 ELSE @]
    ELSE b

RECURSIVE BurstCalls(_, _, _)
BurstCalls(b, us, t) ==
    IF us = {} THEN b
    ELSE LET u == CHOOSE x \in us : TRUE
         IN BurstCalls(BurstCall(b, u, t), us \ {u}, t)

\* ---- the state ------------------------------------------------------------
Quiet == microtasks = <<>>

\* The client sends nothing but exit once it has sent shutdown; the cache's
\* cleanup is released by the shutdown handler and by nothing else.
Running == Quiet /\ cleanupInterval # {}

NoOut ==
    [op |-> "none", uri |-> 0, gets |-> 0, parses |-> 0, model |-> <<>>,
     evicted |-> {}, swept |-> {}, configured |-> {}, sent |-> <<>>, logs |-> <<>>,
     result |-> <<>>]

\* The entries of `before` that `after` has no more, except that of `uri`
\* when it was merely replaced.
Gone(before, after) ==
    {[uri |-> u, lastUsedAt |-> before[u].lastUsedAt] : u \in DOMAIN before \ DOMAIN after}

\* What a call get(uri) that left `after` evicted: `stored` is the map with
\* the requested entry in it, before the capacity check.
Evicted(stored, after) ==
    {[uri |-> u, lastUsedAt |-> stored[u].lastUsedAt] : u \in DOMAIN stored \ DOMAIN after}

\* diagnostics delivered to the sink: each message replaces the set of its uri
RECURSIVE Deliver(_, _)
Deliver(pub, msgs) ==
    IF msgs = <<>> THEN pub
    ELSE Deliver(Put(pub, Head(msgs).uri, Head(msgs).diagnostics), Tail(msgs))

Init ==
    /\ documents = {}
    /\ objects = EmptyMap
    /\ pendingValidationRequests = EmptyMap
    /\ timers = {}
    /\ microtasks = <<>>
    /\ now = 0
    /\ languageModels = EmptyMap
    /\ cleanupInterval = {(maxAgeSeconds * 1000) \div 2}
    /\ documentSettings = {}
    /\ published = EmptyMap
    /\ burst = EmptyMap
    /\ removed = EmptyMap
    /\ out = NoOut

\* ---- document lifecycle ---------------------------------------------------
\* didOpen: the store creates the document (clients number a document's
\* versions from 1) and fires onDidChangeContent.
DidOpen(uri, c) ==
    /\ Running
    /\ uri \notin documents
    /\ documents' = documents \cup {uri}
    /\ objects' = Put(objects, uri, [version |-> 1, content |-> c,
                                   languageId |-> LanguageOf(uri)])
    /\ timers' = TriggerTimers(pendingValidationRequests, timers, uri, now)
    /\ pendingValidationRequests' = TriggerRequests(pendingValidationRequests, uri, now)
    /\ burst' = BurstCall(burst, uri, now)
    /\ out' = NoOut
    /\ UNCHANGED <<microtasks, now, languageModels, cleanupInterval, documentSettings, published, removed>>

\* didChange: the store updates the document in place and fires onDidChangeContent.
DidChangeContent(uri, c) ==
    /\ Running
    /\ uri \in documents
    /\ objects[uri].version < MaxVersion
    /\ objects' = [objects EXCEPT ![uri].version = @ + 1, ![uri].content = c]
    /\ timers' = TriggerTimers(pendingValidationRequests, timers, uri, now)
    /\ pendingValidationRequests' = TriggerRequests(pendingValidationRequests, uri, now)
    /\ burst' = BurstCall(burst, uri, now)
    /\ out' = NoOut
    /\ UNCHANGED <<documents, microtasks, now, languageModels, cleanupInterval,
                   documentSettings, published, removed>>

\* The three onDidClose handlers, in the order they were registered.
CloseModelsKept(models, uri) == models

CloseModels(models, uri) == OnDocumentRemoved(models, uri)

CloseSettings(settings, uri) == settings \ {uri}

CloseTimersKept(pending, ts, uri) == ts

CloseTimers(pending, ts, uri) == CleanPendingTimers(pending, ts, uri)

CloseRequests(pending, uri) == CleanPendingRequests(pending, uri)

CloseDiagnosticsNone(uri) == <<>>

CloseDiagnostics(uri) == <<[uri |-> uri, diagnostics |-> NoDiagnostics]>>

\* didClose: the store drops the document, then the onDidClose handlers run.
\* The document object lives on only while a timer's closure refers to it.
DidClose(uri) ==
    /\ Running
    /\ uri \in documents
    /\ documents' = documents \ {uri}
    /\ languageModels' = CloseModels(languageModels, uri)
    /\ documentSettings' = CloseSettings(documentSettings, uri)
    /\ timers' = CloseTimers(pendingValidationRequests, timers, uri)
    /\ pendingValidationRequests' = CloseRequests(pendingValidationRequests, uri)
    /\ published' = Deliver(published, CloseDiagnostics(uri))
    /\ burst' = Delete(burst, uri)
    /\ removed' = Put(removed, uri, IF uri \in DOMAIN languageModels
                                    THEN languageModels[uri].version ELSE 0)
    /\ out' = [NoOut EXCEPT !.sent = CloseDiagnostics(uri)]
    /\ objects' = IF \E x \in CloseTimers(pendingValidationRequests, timers, uri) : x.uri = uri
                  THEN objects ELSE Delete(objects, uri)
    /\ UNCHANGED <<microtasks, now, cleanupInterval>>

\* didChangeConfiguration -> updateConfiguration(settings): each engine is
\* configured with its dialect's part of the settings (the engines keep that
\* to themselves; the calls are recorded in `out`).
DidChangeConfiguration(s) ==
    /\ Running
    /\ documentSettings' = {}
    /\ timers' = TriggerAllTimers(pendingValidationRequests, timers, documents, now)
    /\ pendingValidationRequests' = TriggerAllRequests(pendingValidationRequests, documents, now)
    /\ burst' = BurstCalls(burst, documents, now)
    /\ out' = [NoOut EXCEPT !.configured = {[engine |-> l, settings |-> <<s, l>>] :
                                               l \in RegisteredIds}]
    /\ UNCHANGED <<documents, objects, microtasks, now, languageModels, cleanupInterval,
                   published, removed>>

\* ---- validation -----------------------------------------------------------
TimerDueAtOnce(x, t) == TRUE

\* Whether an armed timer may run at clock value t.
TimerDue(x, t) == t >= x.due

\* The timer armed by triggerValidation fires: the request is forgotten and
\* validateTextDocument queues its reaction on the (resolved) settings promise.
TimerFires(uri) ==
    /\ \E x \in timers :
        /\ x.uri = uri
        /\ TimerDue(x, now)
        /\ timers' = timers \ {x}
    /\ pendingValidationRequests' = Delete(pendingValidationRequests, uri)
    /\ microtasks' = Append(microtasks, uri)
    /\ burst' = BurstExec(burst, uri, now)
    /\ out' = NoOut
    /\ UNCHANGED <<documents, objects, now, languageModels, cleanupInterval,
                   documentSettings, published, removed>>

UnhandledRejectionUnlogged(logs) == logs

\* process.on('unhandledRejection'): the rejection is written to the log.
UnhandledRejection(logs) == logs \o <<"error">>

\* The reaction of validateTextDocument to the settings: get the model,
\* validate, publish.  `fail` is where the engine throws, if it does; what the
\* reaction throws rejects the promise nobody handles, which the process logs.
Validate(fail) ==
    /\ microtasks # <<>>
    /\ LET uri == Head(microtasks)
           doc == objects[uri]
           got == Get(languageModels, uri, doc, now)
           diagnostics == DoValidation(uri, doc, got.model)
           parseLog == IF got.parses > 0 THEN ServiceLog(doc.languageId) ELSE <<>>
           base == [NoOut EXCEPT !.op = "validate", !.uri = uri, !.gets = 1,
                                 !.parses = got.parses]
           threw == Throws(doc, fail)
       IN /\ microtasks' = Tail(microtasks)
          /\ fail = "parse" => got.parses > 0
          /\ CASE threw = "parse" ->
                    /\ out' = [base EXCEPT !.logs = UnhandledRejection(parseLog)]
                    /\ UNCHANGED <<languageModels, published, removed>>
               [] threw = "engine" ->
                    /\ languageModels' \in EvictToCapacity(got.stored)
                    /\ removed' = Forget(removed, uri)
                    /\ out' = [base EXCEPT !.model = <<got.model>>,
                                  !.evicted = Evicted(got.stored, languageModels'),
                                  !.logs = UnhandledRejection(
                                              parseLog \o ServiceLog(doc.languageId))]
                    /\ UNCHANGED published
               [] OTHER ->
                    /\ languageModels' \in EvictToCapacity(got.stored)
                    /\ removed' = Forget(removed, uri)
                    /\ published' = Put(published, uri, diagnostics)
                    /\ out' = [base EXCEPT !.model = <<got.model>>,
                                  !.evicted = Evicted(got.stored, languageModels'),
                                  !.logs = parseLog \o ServiceLog(doc.languageId),
                                  !.sent = <<[uri |-> uri, diagnostics |-> diagnostics]>>]
    /\ UNCHANGED <<documents, objects, pendingValidationRequests, timers, now,
                   cleanupInterval, documentSettings, burst>>

\* ---- queries ---------------------------------------------------------------
\* What a query handler returns for a document that is not in the store, and
\* the fallback value it hands to runSafe.
NullKindsAndSymbols == {"completion", "hover", "definition", "rename", "documentSymbol"}

NullKinds == {"completion", "hover", "definition", "rename"}
ListKinds == {"documentSymbol", "documentHighlight", "references", "codeAction"}
QueryKinds == NullKinds \cup ListKinds

FallbackNull(kind) == "null"

Fallback(kind) == IF kind \in NullKinds THEN "null" ELSE "empty"

\* runSafe: the result of the computation, or the fallback value and one
\* logged error when the computation throws.
RunSafe(kind, value, logs, threw) ==
    IF threw THEN [result |-> Fallback(kind), logs |-> logs \o <<"error">>]
    ELSE [result |-> value, logs |-> logs]

\* A query handler: documents.get(uri), stylesheets.get(document), the
\* engine's method.  `fail` is where the engine throws, if it does.
Query(kind, uri, fail) ==
    /\ Running
    /\ IF uri \notin documents
       THEN /\ fail = "none"
            /\ out' = [NoOut EXCEPT !.op = kind, !.uri = uri, !.result = Fallback(kind)]
            /\ UNCHANGED <<languageModels, removed>>
       ELSE LET doc == objects[uri]
                got == Get(languageModels, uri, doc, now)
                parseLog == IF got.parses > 0 THEN ServiceLog(doc.languageId) ELSE <<>>
                \* onCompletion asks for the engine before it gets the model
                logs == IF kind = "completion"
                        THEN ServiceLog(doc.languageId) \o parseLog
                        ELSE parseLog \o ServiceLog(doc.languageId)
                base == [NoOut EXCEPT !.op = kind, !.uri = uri, !.gets = 1,
                                      !.parses = got.parses]
                threw == Throws(doc, fail)
            IN /\ fail = "parse" => got.parses > 0
               /\ IF threw = "parse"
                  THEN LET r == RunSafe(kind, <<>>,
                                    IF kind = "completion" THEN logs ELSE parseLog, TRUE)
                       IN /\ out' = [base EXCEPT !.result = r.result, !.logs = r.logs]
                          /\ UNCHANGED <<languageModels, removed>>
                  ELSE LET r == RunSafe(kind, DoQuery(kind, uri, doc, got.model), logs,
                                        threw = "engine")
                       IN /\ languageModels' \in EvictToCapacity(got.stored)
                          /\ removed' = Forget(removed, uri)
                          /\ out' = [base EXCEPT !.model = <<got.model>>,
                                                 !.evicted = Evicted(got.stored, languageModels'),
                                                 !.result = r.result, !.logs = r.logs]
    /\ UNCHANGED <<documents, objects, pendingValidationRequests, timers, microtasks, now,
                   cleanupInterval, documentSettings, published, burst>>

OnCompletion(uri, fail) == Query("completion", uri, fail)

OnHover(uri, fail) == Query("hover", uri, fail)

OnDocumentSymbol(uri, fail) == Query("documentSymbol", uri, fail)

OnDefinition(uri, fail) == Query("definition", uri, fail)

OnDocumentHighlight(uri, fail) == Query("documentHighlight", uri, fail)

OnReferences(uri, fail) == Query("references", uri, fail)

OnCodeAction(uri, fail) == Query("codeAction", uri, fail)

OnRenameRequest(uri, fail) == Query("rename", uri, fail)

\* ---- shutdown ----------------------------------------------------------------
DisposeNothing(models) == models

\* dispose(): clears the entries and releases the periodic cleanup.
Dispose(models) == EmptyMap

\* dispose(): the interval timer of the cleanup is cleared.
Release(interval) == {}

OnShutdown ==
    /\ Running
    /\ languageModels' = Dispose(languageModels)
    /\ cleanupInterval' = Release(cleanupInterval)
    /\ out' = NoOut
    /\ UNCHANGED <<documents, objects, pendingValidationRequests, timers, microtasks, now,
                   documentSettings, published, burst, removed>>

\* ---- the cache's periodic cleanup -------------------------------------------
CleanupIntervalMs == (maxAgeSeconds * 1000) \div 2

SweepOverCapacityOnly(models, t) ==
    IF Cardinality(DOMAIN models) <= Capacity THEN models
    ELSE [u \in {w \in DOMAIN models : ~(models[w].lastUsedAt < t - maxAgeSeconds * 1000)}
            |-> models[u]]

\* The sweep at clock value t: the entries last used more than maxAgeSeconds
\* before t are removed.
Sweep(models, t) ==
    LET keep == {u \in DOMAIN models : ~(models[u].lastUsedAt < t - maxAgeSeconds * 1000)}
    IN [u \in keep |-> models[u]]

\* The interval timer of the cache fires and is armed again.
CleanupFires ==
    /\ \E due \in cleanupInterval :
        /\ now >= due
        /\ cleanupInterval' = {now + CleanupIntervalMs}
    /\ languageModels' = Sweep(languageModels, now)
    /\ out' = [NoOut EXCEPT !.swept = Gone(languageModels, Sweep(languageModels, now))]
    /\ UNCHANGED <<documents, objects, pendingValidationRequests, timers, microtasks, now,
                   documentSettings, published, burst, removed>>

\* ---- the clock ------------------------------------------------------------
Tick(step, max) ==
    /\ now + step <= max
    /\ now' = now + step
    /\ UNCHANGED <<documents, objects, pendingValidationRequests, timers, microtasks,
                   languageModels, cleanupInterval, documentSettings,
                   published, burst, removed, out>>

\* Where the engine throws, if it does.
Fails == {"none", "parse", "engine"}

\* The handlers of the server, the engines never failing.
Handlers ==
    \/ \E uri \in Uris, c \in Contents : DidOpen(uri, c)
    \/ \E uri \in Uris, c \in Contents : DidChangeContent(uri, c)
    \/ \E uri \in Uris : DidClose(uri)
    \/ \E s \in SettingsValues : DidChangeConfiguration(s)
    \/ \E uri \in Uris : TimerFires(uri)
    \/ Validate("none")
    \/ \E uri \in Uris : OnHover(uri, "none")
    \/ OnShutdown

\* The server while the clock advances in steps of half the validation delay:
\* the events of an editing session, a few hundred milliseconds long.
Next ==
    \/ Handlers
    \/ Tick(TickMs, MaxTime)

Spec == Init /\ [][Next]_vars

\* The scheduler at work: the events that trigger or cancel a validation,
\* the documents all of one text, and the host running what is due: time
\* goes on, a timer that is due fires, a queued reaction runs.
NextSched ==
    \/ \E uri \in Uris : DidOpen(uri, 1)
    \/ \E uri \in Uris : DidChangeContent(uri, 1)
    \/ \E uri \in Uris : DidClose(uri)
    \/ \E s \in SettingsValues : DidChangeConfiguration(s)
    \/ \E uri \in Uris : TimerFires(uri)
    \/ Validate("none")
    \/ Tick(TickMs, MaxTime)

FairSpecSched ==
    /\ Init /\ [][NextSched]_vars
    /\ WF_vars(Tick(TickMs, MaxTime))
    /\ \A uri \in Uris : WF_vars(TimerFires(uri))
    /\ WF_vars(Validate("none"))

\* Validation with engines that may throw; the clock advances by the
\* validation delay, so that a document is validated several times.
NextFaults ==
    \/ \E uri \in Uris, c \in Contents : DidOpen(uri, c)
    \/ \E uri \in Uris, c \in Contents : DidChangeContent(uri, c)
    \/ \E uri \in Uris : DidClose(uri)
    \/ \E uri \in Uris : TimerFires(uri)
    \/ \E fail \in Fails : Validate(fail)
    \/ Tick(validationDelayMs, MaxTicks * validationDelayMs)

SpecFaults == Init /\ [][NextFaults]_vars

\* The query handlers, all of them, with engines that may throw, between
\* the events that open, change and close documents; no time passes.
NextQueries ==
    \/ \E uri \in Uris, c \in Contents : DidOpen(uri, c)
    \/ \E uri \in Uris, c \in Contents : DidChangeContent(uri, c)
    \/ \E uri \in Uris : DidClose(uri)
    \/ \E uri \in Uris, fail \in Fails : OnCompletion(uri, fail)
    \/ \E uri \in Uris, fail \in Fails : OnHover(uri, fail)
    \/ \E uri \in Uris, fail \in Fails : OnDocumentSymbol(uri, fail)
    \/ \E uri \in Uris, fail \in Fails : OnDefinition(uri, fail)
    \/ \E uri \in Uris, fail \in Fails : OnDocumentHighlight(uri, fail)
    \/ \E uri \in Uris, fail \in Fails : OnReferences(uri, fail)
    \/ \E uri \in Uris, fail \in Fails : OnCodeAction(uri, fail)
    \/ \E uri \in Uris, fail \in Fails : OnRenameRequest(uri, fail)

SpecQueries == Init /\ [][NextQueries]_vars

\* The router at work: a document of each dialect is opened, validated and
\* queried (by the handler that asks for the engine first and by one of
\* those that ask for the model first), the engines never throwing.
RouterUris == 1..Len(Dialects)

NextRouter ==
    \/ \E uri \in RouterUris : DidOpen(uri, 1)
    \/ \E uri \in RouterUris : TimerFires(uri)
    \/ Validate("none")
    \/ \E uri \in RouterUris : OnCompletion(uri, "none")
    \/ \E uri \in RouterUris : OnHover(uri, "none")
    \/ Tick(validationDelayMs, validationDelayMs)

SpecRouter == Init /\ [][NextRouter]_vars

\* ---- the model cache on its own ----------------------------------------------
\* The public operations of the cache, called in any order by any caller: the
\* server above calls them only from its handlers.  A caller passes get a
\* document of its choice.
Handle(uri, v) ==
    [version |-> v, content |-> ((v - 1) % NumContents) + 1, languageId |-> "css"]

CacheGet(uri, v) ==
    LET got == Get(languageModels, uri, Handle(uri, v), now)
    IN /\ languageModels' \in EvictToCapacity(got.stored)
       /\ out' = [NoOut EXCEPT !.op = "get", !.uri = uri, !.gets = 1, !.parses = got.parses,
                               !.model = <<got.model>>,
                               !.evicted = Evicted(got.stored, languageModels')]
       /\ UNCHANGED <<documents, objects, pendingValidationRequests, timers, microtasks, now,
                      cleanupInterval, documentSettings, published, burst, removed>>

CacheRemoved(uri) ==
    /\ languageModels' = OnDocumentRemoved(languageModels, uri)
    /\ out' = NoOut
    /\ UNCHANGED <<documents, objects, pendingValidationRequests, timers, microtasks, now,
                   cleanupInterval, documentSettings, published, burst, removed>>

CacheDispose ==
    /\ languageModels' = Dispose(languageModels)
    /\ cleanupInterval' = Release(cleanupInterval)
    /\ out' = [NoOut EXCEPT !.op = "dispose",
                            !.swept = Gone(languageModels, Dispose(languageModels)),
                            !.result = <<cleanupInterval>>]
    /\ UNCHANGED <<documents, objects, pendingValidationRequests, timers, microtasks, now,
                   documentSettings, published, burst, removed>>

\* The cache over minutes: the clock advances in steps of the cleanup interval.
NextCache ==
    \/ \E uri \in Uris, v \in Versions : CacheGet(uri, v)
    \/ \E uri \in Uris : CacheRemoved(uri)
    \/ CacheDispose
    \/ CleanupFires
    \/ Tick(CleanupIntervalMs, MaxTicks * CleanupIntervalMs)

SpecCache == Init /\ [][NextCache]_vars

\* The same, the host running the cleanup when it is due and the clock going on.
FairSpecCache ==
    /\ SpecCache
    /\ WF_vars(CleanupFires)
    /\ WF_vars(Tick(CleanupIntervalMs, MaxTicks * CleanupIntervalMs))

\* The cache asked for one identity more than its capacity, at two clock
\* values.  The identities are numbered in the order of their first request:
\* until the cache is full, the identities it holds are all that were asked for.
LruUris == 1..(Capacity + 1)

FirstRequestInOrder(uri) ==
    \/ uri \in DOMAIN languageModels
    \/ uri = Cardinality(DOMAIN languageModels) + 1
    \/ Cardinality(DOMAIN languageModels) = Capacity

NextLru ==
    \/ \E uri \in LruUris : FirstRequestInOrder(uri) /\ CacheGet(uri, 1)
    \/ Tick(CleanupIntervalMs, LruTicks * CleanupIntervalMs)

SpecLru == Init /\ [][NextLru]_vars

\* ---- the claims ---------------------------------------------------------------
\* A step in which a handler asked the cache for the model of u.
GetStep(u) ==
    /\ out'.gets = 1
    /\ out'.uri = u
    /\ <<out, languageModels, microtasks>>' # <<out, languageModels, microtasks>>

\* C1: once a document is closed no validation runs for it until it is opened
\* again: the close handler leaves no armed timer, no recorded request and no
\* queued reaction for it, and a validation that ran was for a document in the store.
NoValidationOfClosedDocument ==
    /\ \A x \in timers : x.uri \in documents
    /\ DOMAIN pendingValidationRequests \subseteq documents
    /\ \A i \in 1..Len(microtasks) : microtasks[i] \in documents
    /\ out.op = "validate" => out.uri \in documents

\* Document 1 was just closed, sooner after it was opened than the validation
\* delay: its timer was armed and had not fired when it was closed.
ClosedWhileRequestPending ==
    /\ out.sent = <<[uri |-> 1, diagnostics |-> NoDiagnostics]>>
    /\ 1 \notin documents
    /\ now < validationDelayMs

\* C2: closing a document publishes the empty diagnostic set for it, once, and
\* leaves no validation of it to come; the diagnostics last published for a
\* closed document are the empty set.
ClosePublishesEmptyDiagnostics ==
    /\ [](\A u \in DOMAIN published : u \notin documents => published[u] = NoDiagnostics)
    /\ [][\A u \in documents \ documents' :
            /\ out'.sent = <<[uri |-> u, diagnostics |-> NoDiagnostics]>>
            /\ published'[u] = NoDiagnostics
            /\ ~\E x \in timers' : x.uri = u
            /\ \A i \in 1..Len(microtasks') : microtasks'[i] # u]_vars

\* A document that was validated (the cache held its model) is closed, and
\* time enough has passed for a validation that was left over to run.
ClosedAfterValidation ==
    \E u \in DOMAIN removed :
        /\ u \notin documents
        /\ removed[u] > 0
        /\ u \in DOMAIN published
        /\ published[u] = NoDiagnostics
        /\ now >= validationDelayMs

\* C3: a burst of calls of triggerValidation for an open document, each less
\* than validationDelayMs after the one before, leads to one validation and no
\* more: none while its request is pending, one once the request is gone; the
\* validation is of the document's version and text at that time.
BurstValidatedOnce ==
    /\ \A u \in DOMAIN burst :
        /\ burst[u].execs <= 1
        /\ burst[u].execs = 0 <=> u \in DOMAIN pendingValidationRequests
    /\ (out.op = "validate" /\ out.sent # <<>>) =>
        /\ out.sent[1].diagnostics[1].version = objects[out.uri].version
        /\ out.sent[1].diagnostics[1].content = objects[out.uri].content

\* A burst of two calls or more has been validated, at the second version.
BurstOfManyValidated ==
    \E u \in DOMAIN burst :
        /\ burst[u].many
        /\ burst[u].execs = 1
        /\ out.op = "validate" /\ out.uri = u /\ out.sent # <<>>
        /\ objects[u].version = 2

\* C4: the armed timers are the recorded requests, one for a uri at most.
OneArmedTimerPerDocument ==
    timers = {[uri |-> u, due |-> pendingValidationRequests[u]] :
                u \in DOMAIN pendingValidationRequests}

\* A request was replaced by a later call of triggerValidation and is pending.
RequestReplaced ==
    \E u \in DOMAIN burst :
        /\ burst[u].many
        /\ u \in DOMAIN pendingValidationRequests
        /\ pendingValidationRequests[u] > validationDelayMs

\* C5: the cache holds no more entries than its capacity.
CacheWithinCapacity == Cardinality(DOMAIN languageModels) <= Capacity

\* A get has evicted an entry and left the cache full.
EvictedDownToCapacity ==
    /\ out.evicted # {}
    /\ Cardinality(DOMAIN languageModels) = Capacity

\* C6: a get for a document whose entry has the document's version returns
\* the stored model and does not call the compute function.
HitReturnsStoredModel ==
    [][\A u \in documents :
        (/\ GetStep(u)
         /\ u \in DOMAIN languageModels
         /\ languageModels[u].version = objects[u].version)
        => /\ out'.parses = 0
           /\ out'.model = <<languageModels[u].model>>]_vars

\* A hover was answered from the cache, with an entry that a validation of
\* the same version had stored.
HoverAnsweredFromCache ==
    /\ out.op = "hover"
    /\ out.gets = 1
    /\ out.parses = 0
    /\ out.model # <<>>
    /\ out.uri \in DOMAIN published
    /\ published[out.uri] # NoDiagnostics

\* C7: an entry with the version of its open document holds the model of the
\* document's text; a get returns the model of the text, and when the entry
\* has another version it computes the model once and stores it with the
\* document's version.
CachedModelIsCurrent ==
    /\ [](\A u \in DOMAIN languageModels \cap documents :
            languageModels[u].version = objects[u].version
                => languageModels[u].model = Parse(u, objects[u]))
    /\ []((out.model # <<>> /\ out.uri \in DOMAIN objects)
            => out.model[1] = Parse(out.uri, objects[out.uri]))
    /\ [][\A u \in documents :
            (/\ GetStep(u)
             /\ u \in DOMAIN languageModels
             /\ languageModels[u].version # objects[u].version)
            => /\ out'.parses = 1
               /\ u \in DOMAIN languageModels'
               /\ languageModels'[u].version = objects[u].version
               /\ languageModels'[u].model = Parse(u, objects[u])]_vars

\* A document validated at version 1 was changed, and a get at version 2
\* computed the model again.
RecomputedAfterChange ==
    \E u \in documents :
        /\ out.gets = 1 /\ out.uri = u /\ out.parses = 1
        /\ objects[u].version = 2
        /\ u \in DOMAIN languageModels /\ languageModels[u].version = 2
        /\ u \in DOMAIN published
        /\ published[u] # NoDiagnostics
        /\ published[u][1].version = 1

\* C9: when a document is closed its entry is gone, and the first get for
\* the uri after that computes the model.
ClosedDocumentIsRemoved ==
    /\ [][\A u \in documents \ documents' : u \notin DOMAIN languageModels']_vars
    /\ [][\A u \in DOMAIN removed : GetStep(u) => out'.parses = 1]_vars

\* A document is open again with the version of the entry that was removed
\* when it was closed.
ReopenedAtRemovedVersion ==
    \E u \in DOMAIN removed \cap documents :
        /\ removed[u] = objects[u].version
        /\ u \notin DOMAIN languageModels

SweepRemovesOldEntries ==
    /\ [][(cleanupInterval' # cleanupInterval /\ cleanupInterval' # {}) =>
            /\ \A u \in DOMAIN languageModels :
                  u \notin DOMAIN languageModels'
                      <=> languageModels[u].lastUsedAt < now - maxAgeSeconds * 1000
            /\ \A u \in DOMAIN languageModels' :
                  u \in DOMAIN languageModels /\ languageModels'[u] = languageModels[u]]_vars
    /\ \A u \in Uris :
          (u \in DOMAIN languageModels /\ languageModels[u].lastUsedAt = 0
              /\ cleanupInterval # {})
          ~> (u \notin DOMAIN languageModels \/ languageModels[u].lastUsedAt > 0)

\* A sweep of a cache of two entries removed the one that was not used for
\* more than maxAgeSeconds and kept the other.
SweptOneKeptOne ==
    /\ out.swept # {}
    /\ \A e \in out.swept : e.lastUsedAt < now - maxAgeSeconds * 1000
    /\ DOMAIN languageModels # {}
    /\ Cardinality(DOMAIN languageModels) < Capacity

\* C11: a pending request ends by its timer firing, which calls the
\* validation once and leaves no request recorded, or by being cancelled
\* (the document closed, or the request replaced) with no call of the
\* validation; and a request whose time comes does end.
PendingRequestEnds ==
    /\ [][\A u \in DOMAIN pendingValidationRequests :
            (\/ u \notin DOMAIN pendingValidationRequests'
             \/ pendingValidationRequests'[u] # pendingValidationRequests[u])
            => /\ [uri |-> u, due |-> pendingValidationRequests[u]] \notin timers'
               /\ \/ /\ microtasks' = Append(microtasks, u)
                     /\ u \notin DOMAIN pendingValidationRequests'
                     /\ now >= pendingValidationRequests[u]
                  \/ /\ microtasks' = microtasks
                     /\ \/ u \notin documents'
                        \/ /\ u \in DOMAIN pendingValidationRequests'
                           /\ pendingValidationRequests'[u] > pendingValidationRequests[u]]_vars
    /\ \A u \in Uris :
        \A d \in {validationDelayMs + k * TickMs : k \in 0..(MaxTicks - 2)} :
            (u \in DOMAIN pendingValidationRequests /\ pendingValidationRequests[u] = d)
            ~> (u \notin DOMAIN pendingValidationRequests \/ pendingValidationRequests[u] # d)

\* The timer of a request fired and the validation it called has published:
\* the scheduler is idle for the document.
RequestFiredAndValidated ==
    \E u \in documents :
        /\ u \in DOMAIN burst /\ burst[u].execs = 1
        /\ u \notin DOMAIN pendingValidationRequests
        /\ ~\E x \in timers : x.uri = u
        /\ out.op = "validate" /\ out.uri = u /\ out.sent # <<>>

\* C12: the validations of a document do not overlap: a document has one
\* validation in flight at most (its timer fired, its diagnostics not yet
\* published), and while it is in flight no request for it is pending.
ValidationsDoNotOverlap ==
    /\ \A i, j \in 1..Len(microtasks) : i # j => microtasks[i] # microtasks[j]
    /\ \A i \in 1..Len(microtasks) :
        /\ microtasks[i] \notin DOMAIN pendingValidationRequests
        /\ ~\E x \in timers : x.uri = microtasks[i]

\* The validations of two documents are in flight at once.
TwoValidationsInFlight ==
    /\ Len(microtasks) = 2
    /\ microtasks[1] # microtasks[2]

\* C15: a configuration change configures every engine with its dialect's
\* part of the settings, leaves no per-document settings, leaves a pending
\* request of the full delay for every open document and for no other, and
\* changes neither the cache nor the documents nor what is published.
ConfigurationChangeRetriggers ==
    [][(out'.configured # {} /\ now' = now) =>
        /\ \E s \in SettingsValues :
              out'.configured = {[engine |-> l, settings |-> <<s, l>>] :
                                    l \in {"css", "scss", "less"}}
        /\ documentSettings' = {}
        /\ DOMAIN pendingValidationRequests' = documents
        /\ \A u \in documents :
              /\ pendingValidationRequests'[u] = now + validationDelayMs
              /\ [uri |-> u, due |-> now + validationDelayMs] \in timers'
        /\ languageModels' = languageModels
        /\ documents' = documents
        /\ objects' = objects
        /\ published' = published
        /\ microtasks' = microtasks]_vars

\* A configuration change came when a document was validated and its model
\* cached: the document has a request of the full delay again.
ConfiguredWithValidatedDocument ==
    /\ out.configured # {}
    /\ \E u \in documents :
        /\ u \in DOMAIN languageModels
        /\ u \in DOMAIN published /\ published[u] # NoDiagnostics
        /\ u \in DOMAIN pendingValidationRequests
        /\ pendingValidationRequests[u] = now + validationDelayMs
        /\ now >= validationDelayMs

\* C18: cleanPendingValidation for a document with no pending request
\* changes nothing (opening a document arms its timer and cancels none,
\* closing an idle document leaves the scheduler as it is), and the request
\* of a document changes only in a step about that document: it is opened,
\* changed or closed, its timer fires, or the configuration changes.
SchedulerFrame ==
    /\ [][\A u \in Uris :
            (\/ {x \in timers' : x.uri = u} # {x \in timers : x.uri = u}
             \/ (u \in DOMAIN pendingValidationRequests) # (u \in DOMAIN pendingValidationRequests')
             \/ /\ u \in DOMAIN pendingValidationRequests
                /\ u \in DOMAIN pendingValidationRequests'
                /\ pendingValidationRequests'[u] # pendingValidationRequests[u])
            => \/ u \in documents' \ documents
               \/ u \in documents \ documents'
               \/ u \in documents /\ u \in documents' /\ objects'[u] # objects[u]
               \/ microtasks' = Append(microtasks, u)
               \/ out'.configured # {} /\ now' = now /\ u \in documents]_vars
    /\ [][\A u \in documents' \ documents :
            /\ timers' = timers \cup {[uri |-> u, due |-> now + validationDelayMs]}
            /\ DOMAIN pendingValidationRequests' = DOMAIN pendingValidationRequests \cup {u}
            /\ \A w \in DOMAIN pendingValidationRequests :
                  pendingValidationRequests'[w] = pendingValidationRequests[w]]_vars
    /\ [][\A u \in documents \ documents' :
            u \notin DOMAIN pendingValidationRequests =>
                /\ timers' = timers
                /\ pendingValidationRequests' = pendingValidationRequests
                /\ microtasks' = microtasks]_vars

\* A document was opened, with no request to cancel, while the request of
\* another document was pending, and that request is as it was.
TriggeredBesidePendingRequest ==
    \E u, w \in DOMAIN pendingValidationRequests :
        /\ u # w
        /\ u \in DOMAIN burst /\ ~burst[u].many /\ burst[u].execs = 0
        /\ pendingValidationRequests[u] = now + validationDelayMs
        /\ pendingValidationRequests[w] < pendingValidationRequests[u]
        /\ [uri |-> w, due |-> pendingValidationRequests[w]] \in timers

\* C19: the cache holds entries of open documents only.
CacheHoldsOpenDocumentsOnly == DOMAIN languageModels \subseteq documents

\* A document whose model was cached is closed and has no entry, while the
\* model of an open document is cached.
ClosedDocumentLeftTheCache ==
    \E u \in DOMAIN removed :
        /\ u \notin documents
        /\ removed[u] > 0
        /\ u \notin DOMAIN languageModels
        /\ \E w \in documents : w \in DOMAIN languageModels

\* C13: a validation pass either publishes the diagnostics of the document,
\* or, the engine throwing, publishes nothing and leaves what was published,
\* writes one error to the log, creates no request and arms no timer, and
\* leaves the queue of the later passes and the documents as they are.
FailedValidationPublishesNothing ==
    [][(microtasks # <<>> /\ microtasks' = Tail(microtasks)) =>
        LET u == Head(microtasks)
            d == DoValidation(u, objects[u], Parse(u, objects[u]))
            errors == {i \in 1..Len(out'.logs) : out'.logs[i] = "error"}
        IN /\ out'.op = "validate" /\ out'.uri = u
           /\ \/ /\ out'.sent = <<[uri |-> u, diagnostics |-> d]>>
                 /\ published' = [w \in DOMAIN published \cup {u} |->
                                     IF w = u THEN d ELSE published[w]]
                 /\ errors = {}
              \/ /\ out'.sent = <<>>
                 /\ published' = published
                 /\ Cardinality(errors) = 1
           /\ pendingValidationRequests' = pendingValidationRequests
           /\ timers' = timers
           /\ documents' = documents
           /\ objects' = objects
           /\ cleanupInterval' = cleanupInterval]_vars

\* The validation of the second version of a document failed: the
\* diagnostics of its first version are still the published ones.
FailedValidationKeptDiagnostics ==
    /\ out.op = "validate"
    /\ out.sent = <<>>
    /\ \E i \in 1..Len(out.logs) : out.logs[i] = "error"
    /\ out.uri \in documents
    /\ objects[out.uri].version = 2
    /\ out.uri \in DOMAIN published
    /\ published[out.uri] # NoDiagnostics
    /\ published[out.uri][1].version = 1
    /\ out.uri \notin DOMAIN pendingValidationRequests

\* C14: a query on a document of the store returns the engine's result for
\* the document's text and logs no error, or, the engine throwing, returns
\* the fallback value of its kind (null, or the empty list) and logs one
\* error; a query changes no document, no request, no published diagnostics
\* and no cache entry of another document.
QueryFailureReturnsFallback ==
    /\ []((out.op \in {"completion", "hover", "definition", "rename", "documentSymbol",
                       "documentHighlight", "references", "codeAction"}
           /\ out.uri \in documents) =>
            LET errors == {i \in 1..Len(out.logs) : out.logs[i] = "error"}
                fallback == IF out.op \in {"documentSymbol", "documentHighlight",
                                           "references", "codeAction"}
                            THEN "empty" ELSE "null"
            IN \/ /\ errors = {}
                  /\ out.result = DoQuery(out.op, out.uri, objects[out.uri],
                                          Parse(out.uri, objects[out.uri]))
               \/ /\ Cardinality(errors) = 1
                  /\ out.result = fallback)
    /\ [][out'.op # "none" =>
            /\ \A w \in DOMAIN languageModels \ {out'.uri} :
                  w \in DOMAIN languageModels' /\ languageModels'[w] = languageModels[w]
            /\ DOMAIN languageModels' \subseteq DOMAIN languageModels \cup {out'.uri}
            /\ UNCHANGED <<documents, objects, pendingValidationRequests, timers,
                           microtasks, published>>]_vars

\* A document-symbol query failed and returned the empty list, while the
\* model of another document is cached.
SymbolQueryFellBack ==
    /\ out.op = "documentSymbol"
    /\ out.uri \in documents
    /\ out.result = "empty"
    /\ \E i \in 1..Len(out.logs) : out.logs[i] = "error"
    /\ \E w \in DOMAIN languageModels : w # out.uri

\* C16 as stated: every query and validation of a document in the store is
\* served by the engine of the document's dialect, or by the css engine,
\* with a notice in the log, when the dialect is not css, scss or less.
EveryDialectIsServed ==
    (out.op # "none" /\ out.gets = 1 /\ out.uri \in documents) =>
        LET id == objects[out.uri].languageId
            known == id \in {"css", "scss", "less"}
        IN /\ out.model # <<>>
           /\ out.model[1].engine = IF known THEN id ELSE "css"
           /\ ~known /\ out.parses = 1 => \E i \in 1..Len(out.logs) : out.logs[i] = "log"
           /\ \A i \in 1..Len(out.logs) : out.logs[i] # "error"

\* C20: a query for a uri that is not in the store returns null, or the
\* empty list for the kinds that return lists, without a call of the cache
\* or of an engine and without a line in the log; the cache, the requests
\* and the timers are unchanged.
QueryOfUnknownDocument ==
    [][(out'.op # "none" /\ out'.op # "validate" /\ out'.uri \notin documents) =>
        /\ out'.result = IF out'.op \in {"documentSymbol", "documentHighlight",
                                        "references", "codeAction"}
                         THEN "empty" ELSE "null"
        /\ out'.gets = 0
        /\ out'.parses = 0
        /\ out'.model = <<>>
        /\ out'.logs = <<>>
        /\ UNCHANGED <<languageModels, pendingValidationRequests, timers, microtasks,
                       documents, objects, published>>]_vars

\* A closed document, whose model had been cached, was asked for its symbols
\* while the request of an open document was pending.
SymbolsOfClosedDocument ==
    /\ out.op = "documentSymbol"
    /\ out.uri \notin documents
    /\ out.result = "empty"
    /\ out.uri \in DOMAIN removed /\ removed[out.uri] > 0
    /\ DOMAIN pendingValidationRequests # {}

\* C17: dispose leaves no entry and no periodic cleanup, whatever the state
\* it is called in; called again, it leaves the state as it is; and once
\* the cleanup is released no sweep runs.
DisposeIsIdempotent ==
    /\ [][(out'.op = "dispose" /\ now' = now) =>
            /\ languageModels' = [x \in {} |-> 0]
            /\ cleanupInterval' = {}
            /\ out'.swept = {[uri |-> u, lastUsedAt |-> languageModels[u].lastUsedAt] :
                                u \in DOMAIN languageModels}
            /\ (out.op = "dispose" =>
                    /\ languageModels' = languageModels
                    /\ cleanupInterval' = cleanupInterval
                    /\ out'.swept = {})]_vars
    /\ [][cleanupInterval = {} =>
            \A u \in DOMAIN languageModels :
                u \in DOMAIN languageModels' \/ out'.op = "dispose" \/ out'.swept = {}]_vars

\* dispose was called when the cleanup was already released and the cache
\* empty, some time after the cache was in use.
DisposedAgain ==
    /\ out.op = "dispose"
    /\ out.result = <<{}>>
    /\ out.swept = {}
    /\ languageModels = EmptyMap
    /\ cleanupInterval = {}
    /\ now > 0

====
